---- MODULE Spec2Model ----
(***************************************************************************)
(* A model of telly, a Telnet parsing library: the byte transforms of      *)
(* utils.rs, the command/option vocabularies, the typed subnegotiation     *)
(* codec and the frame decoder of telnet.rs, and the stream adapter of     *)
(* stream.rs.  Bytes are the naturals 0..255; a Vec<u8>, a BytesMut and a  *)
(* String (its UTF-8 bytes) are sequences of bytes.                        *)
(***************************************************************************)
EXTENDS Integers, Sequences, FiniteSets, TLC

(***************************************************************************)
(* Bounds of the model.                                                    *)
(***************************************************************************)
\* longest raw byte sequence fed to the frame decoder
MaxBufLen == 4
\* longest input of a byte transform
MaxXformLen == 4
\* longest subnegotiation payload / terminal name of the typed codec
MaxPayloadLen == 5
\* most wire items (data runs and frames) the peer puts on the channel
MaxItems == 3
\* most send_event calls on the loopback channel
MaxSends == 1

(***************************************************************************)
(* Protocol constants.                                                     *)
(***************************************************************************)
IS == 0
SEND == 1
SE == 240
SB == 250
WILL == 251
WONT == 252
DO == 253
DONT == 254
IAC == 255
LF == 10
CR == 13
NUL == 0
\* const BUFFER_SIZE in Iterator::next
BUFFER_SIZE == 16
\* 2^16, the width of width/height
U16 == 65536

\* Option<u8>::None / "no value" for a byte-valued slot
NoByte == -1
\* the item standing for a panic (unreachable!()) of an iterator
PanicByte == -2

(***************************************************************************)
(* TelnetCommand (telnet.rs): a fieldless enum with explicit discriminants *)
(* and derive(FromPrimitive).  A value is its variant name.                *)
(***************************************************************************)
TelnetCommand ==
    {"SE", "NOP", "DataMark", "Break", "InterruptProcess", "AbortOutput",
     "AreYouThere", "EraseCharacter", "EraseLine", "GoAhead", "SB", "Will",
     "Wont", "Do", "Dont", "IAC", "Unknown"}

\* impl From<TelnetCommand> for u8: command as u8 (the discriminant)
CommandToU8(command) ==
    CASE command = "SE" -> 240
      [] command = "NOP" -> 241
      [] command = "DataMark" -> 242
      [] command = "Break" -> 243
      [] command = "InterruptProcess" -> 244
      [] command = "AbortOutput" -> 245
      [] command = "AreYouThere" -> 246
      [] command = "EraseCharacter" -> 247
      [] command = "EraseLine" -> 248
      [] command = "GoAhead" -> 249
      [] command = "SB" -> 250
      [] command = "Will" -> 251
      [] command = "Wont" -> 252
      [] command = "Do" -> 253
      [] command = "Dont" -> 254
      [] command = "IAC" -> 255
      [] command = "Unknown" -> 0

\* impl From<u8> for TelnetCommand: from_u8(byte), None => Unknown
CommandFromU8(byte) ==
    IF \E c \in TelnetCommand : CommandToU8(c) = byte
    THEN CHOOSE c \in TelnetCommand : CommandToU8(c) = byte
    ELSE "Unknown"

(***************************************************************************)
(* TelnetOption (telnet.rs).                                               *)
(***************************************************************************)
TelnetOption ==
    {"BinaryTransmission", "Echo", "Reconnection", "SuppressGoAhead",
     "ApproxMessageSizeNegotiation", "Status", "TimingMark", "Logout",
     "TerminalType", "NegotiateAboutWindowSize", "LineMode", "Unknown"}

\* a bug the option mapping claim must notice: Logout has the code 17
OptionToU8_LogoutMoved(option) ==
    CASE option = "BinaryTransmission" -> 0
      [] option = "Echo" -> 1
      [] option = "Reconnection" -> 2
      [] option = "SuppressGoAhead" -> 3
      [] option = "ApproxMessageSizeNegotiation" -> 4
      [] option = "Status" -> 5
      [] option = "TimingMark" -> 6
      [] option = "Logout" -> 17
      [] option = "TerminalType" -> 24
      [] option = "NegotiateAboutWindowSize" -> 31
      [] option = "LineMode" -> 34
      [] option = "Unknown" -> 254

\* impl From<TelnetOption> for u8: option as u8
OptionToU8(option) ==
    CASE option = "BinaryTransmission" -> 0
      [] option = "Echo" -> 1
      [] option = "Reconnection" -> 2
      [] option = "SuppressGoAhead" -> 3
      [] option = "ApproxMessageSizeNegotiation" -> 4
      [] option = "Status" -> 5
      [] option = "TimingMark" -> 6
      [] option = "Logout" -> 18
      [] option = "TerminalType" -> 24
      [] option = "NegotiateAboutWindowSize" -> 31
      [] option = "LineMode" -> 34
      [] option = "Unknown" -> 254

\* impl From<u8> for TelnetOption: from_u8(byte), None => Unknown
OptionFromU8(byte) ==
    IF \E o \in TelnetOption : OptionToU8(o) = byte
    THEN CHOOSE o \in TelnetOption : OptionToU8(o) = byte
    ELSE "Unknown"

(***************************************************************************)
(* utils.rs: the byte transforms.  Each iterator is run to its end: the    *)
(* operator takes the iterator's state (the rest of its inner iterator     *)
(* and its fields) and returns the items its next() yields from there.     *)
(***************************************************************************)
\* a bug the escaping claims must notice: an IAC is passed on undoubled
EscapeIacsRun_NoEscape(inner, escape_next) == inner

\* EscapeIacs::next, from the state (inner, escape_next)
RECURSIVE EscapeIacsRun(_, _)
EscapeIacsRun(inner, escape_next) ==
    IF escape_next
    THEN <<IAC>> \o EscapeIacsRun(inner, FALSE)
    ELSE IF inner = <<>>
         THEN <<>>
         ELSE <<Head(inner)>> \o EscapeIacsRun(Tail(inner), Head(inner) = IAC)

\* TellyIterTraits::escape_iacs, collected
escape_iacs(bytes) == EscapeIacsRun(bytes, FALSE)

\* one item of a fallible byte iterator: Ok(byte) or Err(DecodeError), the
\* error message being a function of the byte found (NoByte for None)
OkItem(byte) == [ok |-> TRUE, val |-> byte]
ErrItem(found) == [ok |-> FALSE, val |-> found]

\* UnescapeIacs::next, from the state (inner)
RECURSIVE UnescapeIacsRun(_)
UnescapeIacsRun(inner) ==
    IF inner = <<>>
    THEN <<>>
    ELSE IF Head(inner) = IAC
         THEN IF Tail(inner) = <<>>
              THEN <<ErrItem(NoByte)>>
              ELSE IF Head(Tail(inner)) = IAC
                   THEN <<OkItem(IAC)>> \o UnescapeIacsRun(Tail(Tail(inner)))
                   ELSE <<ErrItem(Head(Tail(inner)))>>
                        \o UnescapeIacsRun(Tail(Tail(inner)))
         ELSE <<OkItem(Head(inner))>> \o UnescapeIacsRun(Tail(inner))

\* a bug the unescaping claim must notice: every byte is passed on as it is
unescape_iacs_PassThrough(bytes) ==
    [i \in 1..Len(bytes) |-> OkItem(bytes[i])]

\* TellyIterTraits::unescape_iacs: the items of the iterator
unescape_iacs(bytes) == UnescapeIacsRun(bytes)

\* UnixToNvt::next, from the state (inner, produce_null, produce_newline);
\* inner is the collected EscapeIacs iterator
RECURSIVE UnixToNvtRun(_, _, _)
UnixToNvtRun(inner, produce_null, produce_newline) ==
    IF produce_null /\ produce_newline
    THEN <<PanicByte>>
    ELSE IF produce_null
    THEN <<NUL>> \o UnixToNvtRun(inner, FALSE, produce_newline)
    ELSE IF produce_newline
         THEN <<LF>> \o UnixToNvtRun(inner, produce_null, FALSE)
         ELSE IF inner = <<>>
              THEN <<>>
              ELSE IF Head(inner) = CR
                   THEN <<CR>> \o UnixToNvtRun(Tail(inner), TRUE, FALSE)
                   ELSE IF Head(inner) = LF
                        THEN <<CR>> \o UnixToNvtRun(Tail(inner), FALSE, TRUE)
                        ELSE <<Head(inner)>>
                             \o UnixToNvtRun(Tail(inner), FALSE, FALSE)

\* a bug the per-byte claim must notice: the line endings are transcoded and
\* 0xFF is not doubled
unix_to_nvt_NoEscape(bytes) == UnixToNvtRun(bytes, FALSE, FALSE)

\* TellyIterTraits::unix_to_nvt: UnixToNvt over escape_iacs
unix_to_nvt(bytes) == UnixToNvtRun(escape_iacs(bytes), FALSE, FALSE)

\* a bug the line-ending claims must notice: '\r' '\n' is not collapsed, the
\* '\n' is kept in the look-ahead buffer like any other byte
RECURSIVE NvtToUnixRun_NoCollapse(_, _)
NvtToUnixRun_NoCollapse(inner, buffer) ==
    LET taken == buffer # NoByte
        byte == IF taken THEN buffer
                ELSE IF inner = <<>> THEN NoByte ELSE Head(inner)
        rest == IF taken \/ inner = <<>> THEN inner ELSE Tail(inner)
    IN  IF byte = NoByte
        THEN <<>>
        ELSE IF byte = CR
             THEN IF rest # <<>>
                  THEN <<CR>> \o NvtToUnixRun_NoCollapse(Tail(rest), Head(rest))
                  ELSE <<CR>> \o NvtToUnixRun_NoCollapse(rest, NoByte)
             ELSE IF byte = NUL
                  THEN NvtToUnixRun_NoCollapse(rest, NoByte)
                  ELSE <<byte>> \o NvtToUnixRun_NoCollapse(rest, NoByte)

\* a bug the look-ahead claim must notice: the byte read after a '\r' that is
\* not a '\n' is not kept in the buffer, and is lost
RECURSIVE NvtToUnixRun_DropsLookahead(_, _)
NvtToUnixRun_DropsLookahead(inner, buffer) ==
    LET taken == buffer # NoByte
        byte == IF taken THEN buffer
                ELSE IF inner = <<>> THEN NoByte ELSE Head(inner)
        rest == IF taken \/ inner = <<>> THEN inner ELSE Tail(inner)
    IN  IF byte = NoByte
        THEN <<>>
        ELSE IF byte = CR
             THEN IF rest # <<>>
                  THEN IF Head(rest) = LF
                       THEN <<LF>>
                            \o NvtToUnixRun_DropsLookahead(Tail(rest), NoByte)
                       ELSE <<CR>>
                            \o NvtToUnixRun_DropsLookahead(Tail(rest), NoByte)
                  ELSE <<CR>> \o NvtToUnixRun_DropsLookahead(rest, NoByte)
             ELSE IF byte = NUL
                  THEN NvtToUnixRun_DropsLookahead(rest, NoByte)
                  ELSE <<byte>> \o NvtToUnixRun_DropsLookahead(rest, NoByte)

\* NvtToUnix::next, from the state (inner, buffer); buffer is NoByte for None
RECURSIVE NvtToUnixRun(_, _)
NvtToUnixRun(inner, buffer) ==
    LET taken == buffer # NoByte
        byte == IF taken THEN buffer
                ELSE IF inner = <<>> THEN NoByte ELSE Head(inner)
        rest == IF taken \/ inner = <<>> THEN inner ELSE Tail(inner)
    IN  IF byte = NoByte
        THEN <<>>
        ELSE IF byte = CR
             THEN IF rest # <<>>
                  THEN IF Head(rest) = LF
                       THEN <<LF>> \o NvtToUnixRun(Tail(rest), NoByte)
                       ELSE <<CR>> \o NvtToUnixRun(Tail(rest), Head(rest))
                  ELSE <<CR>> \o NvtToUnixRun(rest, NoByte)
             ELSE IF byte = NUL
                  THEN NvtToUnixRun(rest, NoByte)
                  ELSE <<byte>> \o NvtToUnixRun(rest, NoByte)

\* TellyIterTraits::nvt_to_unix: UnescapeIacs over NvtToUnix
nvt_to_unix(bytes) == UnescapeIacsRun(NvtToUnixRun(bytes, NoByte))

\* Result<Vec<u8>, TellyError>
OkBytes(bytes) == [ok |-> TRUE, bytes |-> bytes, err |-> NoByte]
ErrBytes(found) == [ok |-> FALSE, bytes |-> <<>>, err |-> found]

\* Iterator::collect::<Result<Vec<u8>, TellyError>>: the first Err, else all
RECURSIVE CollectFrom(_, _)
CollectFrom(items, acc) ==
    IF items = <<>>
    THEN OkBytes(acc)
    ELSE IF Head(items).ok
         THEN CollectFrom(Tail(items), Append(acc, Head(items).val))
         ELSE ErrBytes(Head(items).val)

Collect(items) == CollectFrom(items, <<>>)

(***************************************************************************)
(* telnet.rs: events.  Every TelnetEvent, and Option::None, is a record of *)
(* one shape; the fields a variant does not have hold "-" or <<>>.         *)
(***************************************************************************)
Command(command) ==
    [type |-> "Command", command |-> command, option |-> "-", bytes |-> <<>>]
Negotiation(command, option) ==
    [type |-> "Negotiation", command |-> command, option |-> option,
     bytes |-> <<>>]
\* TelnetEvent::Subnegotiation(UnparsedTelnetSubnegotiation { option, bytes })
Subnegotiation(option, bytes) ==
    [type |-> "Subnegotiation", command |-> "-", option |-> option,
     bytes |-> bytes]
Data(bytes) ==
    [type |-> "Data", command |-> "-", option |-> "-", bytes |-> bytes]
\* Option::<TelnetEvent>::None
None == [type |-> "None", command |-> "-", option |-> "-", bytes |-> <<>>]

\* UnparsedTelnetSubnegotiation::new
Unparsed(option, bytes) == [option |-> option, bytes |-> bytes]

\* UnparsedTelnetSubnegotiation::into_bytes
UnparsedIntoBytes(sub) ==
    <<IAC, SB, OptionToU8(sub.option)>> \o escape_iacs(sub.bytes) \o <<IAC, SE>>

\* TelnetEvent::into_bytes
into_bytes(event) ==
    CASE event.type = "Data" -> unix_to_nvt(event.bytes)
      [] event.type = "Command" -> <<IAC, CommandToU8(event.command)>>
      [] event.type = "Negotiation" ->
            <<IAC, CommandToU8(event.command), OptionToU8(event.option)>>
      [] event.type = "Subnegotiation" ->
            UnparsedIntoBytes(Unparsed(event.option, event.bytes))

(***************************************************************************)
(* telnet.rs: the typed subnegotiation codec.  A TelnetSubnegotiation is a *)
(* record of one shape; a String is the sequence of its UTF-8 bytes.       *)
(***************************************************************************)
NegotiateAboutWindowSize(width, height) ==
    [kind |-> "NegotiateAboutWindowSize", width |-> width, height |-> height,
     name |-> <<>>, option |-> "-", bytes |-> <<>>]
TerminalTypeRequest ==
    [kind |-> "TerminalTypeRequest", width |-> 0, height |-> 0,
     name |-> <<>>, option |-> "-", bytes |-> <<>>]
TerminalTypeResponse(name) ==
    [kind |-> "TerminalTypeResponse", width |-> 0, height |-> 0,
     name |-> name, option |-> "-", bytes |-> <<>>]
Other(option, bytes) ==
    [kind |-> "Other", width |-> 0, height |-> 0,
     name |-> <<>>, option |-> option, bytes |-> bytes]
NoSubnegotiation ==
    [kind |-> "-", width |-> 0, height |-> 0,
     name |-> <<>>, option |-> "-", bytes |-> <<>>]

\* TellyResult<TelnetSubnegotiation>
OkSub(t) == [ok |-> TRUE, val |-> t, err |-> ""]
ErrSub(msg) == [ok |-> FALSE, val |-> NoSubnegotiation, err |-> msg]

\* U+FFFD REPLACEMENT CHARACTER in UTF-8
ReplacementChar == <<239, 191, 189>>

\* String::from_utf8_lossy(..).to_string(), exact for one-byte and two-byte
\* sequences: an ASCII byte and a well-formed two-byte sequence are kept, any
\* other byte (a stray continuation byte, a lead byte without its
\* continuation, 0xC0, 0xC1, 0xF5..0xFF) becomes U+FFFD.  Lead bytes of
\* three- and four-byte sequences (0xE0..0xF4) are outside the inputs used.
RECURSIVE from_utf8_lossy(_)
from_utf8_lossy(bytes) ==
    IF bytes = <<>>
    THEN <<>>
    ELSE LET b == Head(bytes)
         IN  IF b < 128
             THEN <<b>> \o from_utf8_lossy(Tail(bytes))
             ELSE IF /\ b >= 194 /\ b <= 223
                     /\ Tail(bytes) # <<>>
                     /\ Head(Tail(bytes)) >= 128 /\ Head(Tail(bytes)) <= 191
                  THEN <<b, Head(Tail(bytes))>>
                       \o from_utf8_lossy(Tail(Tail(bytes)))
                  ELSE ReplacementChar \o from_utf8_lossy(Tail(bytes))

\* a bug the window-size claim must notice: the two bytes are read low byte
\* first
NawsWord_LittleEndian(hi, lo) == (((lo * 256) % U16) + hi) % U16

\* ((hi as u16) << 8) + (lo as u16), in 16 bits
NawsWord(hi, lo) == (((hi * 256) % U16) + lo) % U16

\* a bug the terminal-type claim must notice: SEND is accepted only when it
\* is the whole payload
try_from_SendAlone(other) ==
    LET bytes == other.bytes
        option == other.option
    IN  CASE option = "NegotiateAboutWindowSize" ->
                IF Len(bytes) # 4
                THEN ErrSub("Incorrect number of bytes for NAWS subnegotiation")
                ELSE OkSub(NegotiateAboutWindowSize(NawsWord(bytes[1], bytes[2]),
                                                    NawsWord(bytes[3], bytes[4])))
          [] option = "TerminalType" ->
                IF bytes = <<SEND>>
                THEN OkSub(TerminalTypeRequest)
                ELSE IF bytes = <<>> \/ bytes[1] # IS
                     THEN ErrSub("Expected IS or SEND in terminal-type subnegotiation")
                     ELSE OkSub(TerminalTypeResponse(from_utf8_lossy(Tail(bytes))))
          [] OTHER -> OkSub(Other(option, bytes))

\* impl TryFrom<UnparsedTelnetSubnegotiation> for TelnetSubnegotiation
try_from(other) ==
    LET bytes == other.bytes
        option == other.option
    IN  CASE option = "NegotiateAboutWindowSize" ->
                IF Len(bytes) # 4
                THEN ErrSub("Incorrect number of bytes for NAWS subnegotiation")
                ELSE OkSub(NegotiateAboutWindowSize(NawsWord(bytes[1], bytes[2]),
                                                    NawsWord(bytes[3], bytes[4])))
          [] option = "TerminalType" ->
                IF bytes # <<>> /\ bytes[1] = SEND
                THEN OkSub(TerminalTypeRequest)
                ELSE IF bytes = <<>> \/ bytes[1] # IS
                     THEN ErrSub("Expected IS or SEND in terminal-type subnegotiation")
                     ELSE OkSub(TerminalTypeResponse(from_utf8_lossy(Tail(bytes))))
          [] OTHER -> OkSub(Other(option, bytes))

\* a bug the typed round trip must notice: the terminal-type response is
\* encoded without its leading IS byte
option_bytes_NoIS(t) ==
    CASE t.kind = "Other" -> Unparsed(t.option, t.bytes)
      [] t.kind = "NegotiateAboutWindowSize" ->
            Unparsed("NegotiateAboutWindowSize",
                     <<(t.width \div 256) % 256, t.width % 256,
                       (t.height \div 256) % 256, t.height % 256>>)
      [] t.kind = "TerminalTypeRequest" -> Unparsed("TerminalType", <<SEND>>)
      [] t.kind = "TerminalTypeResponse" -> Unparsed("TerminalType", t.name)

\* TelnetSubnegotiation::option_bytes, and From<TelnetSubnegotiation> for
\* UnparsedTelnetSubnegotiation, which wraps its pair
option_bytes(t) ==
    CASE t.kind = "Other" -> Unparsed(t.option, t.bytes)
      [] t.kind = "NegotiateAboutWindowSize" ->
            Unparsed("NegotiateAboutWindowSize",
                     <<(t.width \div 256) % 256, t.width % 256,
                       (t.height \div 256) % 256, t.height % 256>>)
      [] t.kind = "TerminalTypeRequest" -> Unparsed("TerminalType", <<SEND>>)
      [] t.kind = "TerminalTypeResponse" ->
            Unparsed("TerminalType", <<IS>> \o t.name)

(***************************************************************************)
(* telnet.rs: TelnetParser::next_event.  The locals of one call are a      *)
(* record; ScanByte is one pass of the for loop's body, Scan the loop.     *)
(*   command, option: the variant name, "None" for Option::None            *)
(*   stop: the loop was left by break                                      *)
(*   panicked: an expect() or an arithmetic underflow aborted the call     *)
(***************************************************************************)
ScanStart ==
    [event_type |-> "Null", data_buffer |-> <<>>, command |-> "None",
     option |-> "None", advancement |-> 0, result |-> None, iac |-> FALSE,
     stop |-> FALSE, panicked |-> FALSE]

\* The arms of the match on event_type, for a byte that was not skipped by
\* `continue`; st.iac is the flag after the IAC toggle and st.advancement has
\* already counted the byte.

\* a bug the no-panic claim must notice: the command of a negotiation is not
\* remembered
NullArm_ForgetsCommand(st, byte, len) ==
    IF st.iac
    THEN LET command == CommandFromU8(byte)
         IN  IF command \in {"Will", "Wont", "Do", "Dont"}
             THEN [st EXCEPT !.event_type = "Negotiation"]
             ELSE IF command = "SB"
                  THEN [st EXCEPT !.command = command,
                                  !.event_type = "Subnegotiation"]
                  ELSE [st EXCEPT !.command = command,
                                  !.result = Command(command),
                                  !.stop = TRUE]
    ELSE LET pushed == Append(st.data_buffer, byte)
         IN  IF st.advancement = len
             THEN [st EXCEPT !.event_type = "Data",
                             !.data_buffer = pushed,
                             !.result = Data(pushed),
                             !.stop = TRUE]
             ELSE [st EXCEPT !.event_type = "Data",
                             !.data_buffer = pushed]

\* a bug the command-frame claim must notice: the loop is not left when a
\* command is found
NullArm_CommandNoBreak(st, byte, len) ==
    IF st.iac
    THEN LET command == CommandFromU8(byte)
         IN  IF command \in {"Will", "Wont", "Do", "Dont"}
             THEN [st EXCEPT !.command = command,
                             !.event_type = "Negotiation"]
             ELSE IF command = "SB"
                  THEN [st EXCEPT !.command = command,
                                  !.event_type = "Subnegotiation"]
                  ELSE [st EXCEPT !.command = command,
                                  !.result = Command(command)]
    ELSE LET pushed == Append(st.data_buffer, byte)
         IN  IF st.advancement = len
             THEN [st EXCEPT !.event_type = "Data",
                             !.data_buffer = pushed,
                             !.result = Data(pushed),
                             !.stop = TRUE]
             ELSE [st EXCEPT !.event_type = "Data",
                             !.data_buffer = pushed]

\* a bug the non-empty-payload claim must notice: the byte that starts a data
\* run is not pushed
NullArm_DoesNotPush(st, byte, len) ==
    IF st.iac
    THEN LET command == CommandFromU8(byte)
         IN  IF command \in {"Will", "Wont", "Do", "Dont"}
             THEN [st EXCEPT !.command = command,
                             !.event_type = "Negotiation"]
             ELSE IF command = "SB"
                  THEN [st EXCEPT !.command = command,
                                  !.event_type = "Subnegotiation"]
                  ELSE [st EXCEPT !.command = command,
                                  !.result = Command(command),
                                  !.stop = TRUE]
    ELSE IF st.advancement = len
         THEN [st EXCEPT !.event_type = "Data",
                         !.result = Data(st.data_buffer),
                         !.stop = TRUE]
         ELSE [st EXCEPT !.event_type = "Data"]

\* a bug the classification claim must notice: Dont is not taken as a
\* negotiation command, and IAC DONT is returned as a command
NullArm_DontIsCommand(st, byte, len) ==
    IF st.iac
    THEN LET command == CommandFromU8(byte)
         IN  IF command \in {"Will", "Wont", "Do"}
             THEN [st EXCEPT !.command = command,
                             !.event_type = "Negotiation"]
             ELSE IF command = "SB"
                  THEN [st EXCEPT !.command = command,
                                  !.event_type = "Subnegotiation"]
                  ELSE [st EXCEPT !.command = command,
                                  !.result = Command(command),
                                  !.stop = TRUE]
    ELSE LET pushed == Append(st.data_buffer, byte)
         IN  IF st.advancement = len
             THEN [st EXCEPT !.event_type = "Data",
                             !.data_buffer = pushed,
                             !.result = Data(pushed),
                             !.stop = TRUE]
             ELSE [st EXCEPT !.event_type = "Data",
                             !.data_buffer = pushed]

\* EventType::Null
NullArm(st, byte, len) ==
    IF st.iac
    THEN LET command == CommandFromU8(byte)
         IN  IF command \in {"Will", "Wont", "Do", "Dont"}
             THEN [st EXCEPT !.command = command,
                             !.event_type = "Negotiation"]
             ELSE IF command = "SB"
                  THEN [st EXCEPT !.command = command,
                                  !.event_type = "Subnegotiation"]
                  ELSE [st EXCEPT !.command = command,
                                  !.result = Command(command),
                                  !.stop = TRUE]
    ELSE LET pushed == Append(st.data_buffer, byte)
         IN  IF st.advancement = len
             THEN [st EXCEPT !.event_type = "Data",
                             !.data_buffer = pushed,
                             !.result = Data(pushed),
                             !.stop = TRUE]
             ELSE [st EXCEPT !.event_type = "Data",
                             !.data_buffer = pushed]

\* EventType::Negotiation
NegotiationArm(st, byte) ==
    IF st.command = "None"
    THEN [st EXCEPT !.panicked = TRUE, !.stop = TRUE]
    ELSE [st EXCEPT !.result = Negotiation(st.command, OptionFromU8(byte)),
                    !.stop = TRUE]

\* a bug the subnegotiation claims must notice: any SE byte ends the payload
SubnegotiationArm_AnySE(st, byte) ==
    IF st.option # "None"
    THEN IF byte = SE
         THEN [st EXCEPT !.result = Subnegotiation(st.option, st.data_buffer),
                         !.stop = TRUE]
         ELSE [st EXCEPT !.data_buffer = Append(st.data_buffer, byte)]
    ELSE [st EXCEPT !.option = OptionFromU8(byte)]

\* EventType::Subnegotiation
SubnegotiationArm(st, byte) ==
    IF st.option # "None"
    THEN IF st.iac /\ byte = SE
         THEN [st EXCEPT !.result = Subnegotiation(st.option, st.data_buffer),
                         !.stop = TRUE]
         ELSE [st EXCEPT !.data_buffer = Append(st.data_buffer, byte)]
    ELSE [st EXCEPT !.option = OptionFromU8(byte)]

\* a bug the ordering claim must notice: the data run gives back one byte
\* instead of two when it meets a command, so it swallows the IAC
DataArm_GiveBackOne(st, byte, len, translate) ==
    LET pushed == IF ~st.iac /\ ~(byte = NUL /\ translate)
                  THEN Append(st.data_buffer, byte)
                  ELSE st.data_buffer
        adv == IF st.iac THEN st.advancement - 1 ELSE st.advancement
    IN  IF st.iac \/ adv = len
        THEN [st EXCEPT !.data_buffer = pushed,
                        !.advancement = adv,
                        !.result = Data(pushed),
                        !.stop = TRUE]
        ELSE [st EXCEPT !.data_buffer = pushed,
                        !.advancement = adv]

\* a bug the data-run claim must notice: the data run gives nothing back when
\* it meets a command, so the IAC and the command byte are consumed with it
DataArm_NoGiveBack(st, byte, len, translate) ==
    LET pushed == IF ~st.iac /\ ~(byte = NUL /\ translate)
                  THEN Append(st.data_buffer, byte)
                  ELSE st.data_buffer
    IN  IF st.iac \/ st.advancement = len
        THEN [st EXCEPT !.data_buffer = pushed,
                        !.result = Data(pushed),
                        !.stop = TRUE]
        ELSE [st EXCEPT !.data_buffer = pushed]

\* a bug the progress claim must notice: the data run gives back three bytes
\* when it meets a command
DataArm_GiveBackThree(st, byte, len, translate) ==
    LET pushed == IF ~st.iac /\ ~(byte = NUL /\ translate)
                  THEN Append(st.data_buffer, byte)
                  ELSE st.data_buffer
        adv == IF st.iac THEN st.advancement - 3 ELSE st.advancement
    IN  IF adv < 0
        THEN [st EXCEPT !.panicked = TRUE, !.stop = TRUE]
        ELSE IF st.iac \/ adv = len
             THEN [st EXCEPT !.data_buffer = pushed,
                             !.advancement = adv,
                             !.result = Data(pushed),
                             !.stop = TRUE]
             ELSE [st EXCEPT !.data_buffer = pushed,
                             !.advancement = adv]

\* EventType::Data
DataArm(st, byte, len, translate) ==
    LET pushed == IF ~st.iac /\ ~(byte = NUL /\ translate)
                  THEN Append(st.data_buffer, byte)
                  ELSE st.data_buffer
        adv == IF st.iac THEN st.advancement - 2 ELSE st.advancement
    IN  IF adv < 0
        THEN [st EXCEPT !.panicked = TRUE, !.stop = TRUE]
        ELSE IF st.iac \/ adv = len
             THEN [st EXCEPT !.data_buffer = pushed,
                             !.advancement = adv,
                             !.result = Data(pushed),
                             !.stop = TRUE]
             ELSE [st EXCEPT !.data_buffer = pushed,
                             !.advancement = adv]

\* match event_type { ... }
MatchByte(st, byte, len, translate) ==
    CASE st.event_type = "Null" -> NullArm(st, byte, len)
      [] st.event_type = "Negotiation" -> NegotiationArm(st, byte)
      [] st.event_type = "Subnegotiation" -> SubnegotiationArm(st, byte)
      [] st.event_type = "Data" -> DataArm(st, byte, len, translate)

\* the body of `for byte in rx_buffer.iter()`
ScanByte(st, byte, len, translate) ==
    LET counted == [st EXCEPT !.advancement = st.advancement + 1]
    IN  IF byte = IAC /\ ~st.iac
        THEN [counted EXCEPT !.iac = TRUE]
        ELSE LET toggled == IF byte = IAC
                            THEN [counted EXCEPT !.iac = FALSE]
                            ELSE counted
                 matched == MatchByte(toggled, byte, len, translate)
             IN  IF matched.stop
                 THEN matched
                 ELSE [matched EXCEPT !.iac = FALSE]

\* the for loop from the i-th byte of the buffer on; the locals are taken
\* as the value `now` once, then the loop stops or does one more pass
RECURSIVE Scan(_, _, _, _)
Scan(st, rx_buffer, i, translate) ==
    CHOOSE after \in
        {IF now.stop \/ i > Len(rx_buffer)
         THEN now
         ELSE Scan(ScanByte(now, rx_buffer[i], Len(rx_buffer), translate),
                   rx_buffer, i + 1, translate) : now \in {st}} : TRUE

\* a bug the consumption claims must notice: the advance stops one byte short
Advance_OneShort(rx_buffer, cnt) ==
    IF cnt > Len(rx_buffer)
    THEN [buffer |-> rx_buffer, panicked |-> TRUE]
    ELSE [buffer |-> SubSeq(rx_buffer, cnt, Len(rx_buffer)),
          panicked |-> FALSE]

\* rx_buffer.advance(cnt): panics when cnt exceeds the remaining length
Advance(rx_buffer, cnt) ==
    IF cnt > Len(rx_buffer)
    THEN [buffer |-> rx_buffer, panicked |-> TRUE]
    ELSE [buffer |-> SubSeq(rx_buffer, cnt + 1, Len(rx_buffer)),
          panicked |-> FALSE]

\* a bug the frame-effect claim must notice: the buffer is advanced past the
\* scanned bytes whether or not an event was found
next_event_AdvanceAlways(rx_buffer, translate) ==
    LET st == Scan(ScanStart, rx_buffer, 1, translate)
        adv == Advance(rx_buffer, st.advancement)
    IN  [result |-> IF st.panicked \/ adv.panicked THEN None ELSE st.result,
         buffer |-> adv.buffer,
         advancement |-> st.advancement,
         panicked |-> st.panicked \/ adv.panicked]

\* TelnetParser::next_event: the value returned, the buffer afterwards, the
\* number of bytes taken off it, and whether the call panicked instead
next_event(rx_buffer, translate) ==
    LET st == Scan(ScanStart, rx_buffer, 1, translate)
        adv == Advance(rx_buffer, st.advancement)
    IN  IF st.panicked
        THEN [result |-> None, buffer |-> rx_buffer, advancement |-> 0,
              panicked |-> TRUE]
        ELSE IF st.result # None
             THEN [result |-> IF adv.panicked THEN None ELSE st.result,
                   buffer |-> adv.buffer,
                   advancement |-> IF adv.panicked THEN 0 ELSE st.advancement,
                   panicked |-> adv.panicked]
             ELSE [result |-> None, buffer |-> rx_buffer, advancement |-> 0,
                   panicked |-> FALSE]

\* impl Default for TelnetParser
DefaultTranslate == TRUE

(***************************************************************************)
(* State.                                                                  *)
(*   rx_buffer  TelnetStream.rx_buffer, or the BytesMut a caller hands to  *)
(*              TelnetParser::next_event                                   *)
(*   translate  TelnetParser.translate                                     *)
(*   stream     the bytes the channel holds and has not delivered yet      *)
(*              (MockStream.buffer); for a caller driving the parser, the  *)
(*              bytes it has yet to append                                 *)
(*   pc         where Iterator::next stands: "idle" between calls, "loop"  *)
(*              inside its read loop                                       *)
(*   result     what the last next_event / next call returned              *)
(*   last       the operation that ran last                                *)
(*   delivered  the events returned so far, adjacent Data events joined    *)
(*   input      all bytes the peer or caller supplies, fixed at the start  *)
(*   items      the events whose wire forms make up input (<<>> when input *)
(*              is a raw byte sequence)                                    *)
(*   sent       the events handed to send_event so far                     *)
(*   written    the bytes the last send_event wrote to the channel         *)
(*   send_result  what the last send_event returned ("-" before any)       *)
(*   io         the calls the last send_event made on the channel, each by *)
(*              its outcome                                                *)
(*   arg, val, cur, ops   a value run through the pure conversions: the    *)
(*              value at the start, the value now, its type, and the       *)
(*              conversions applied                                        *)
(***************************************************************************)
VARIABLES rx_buffer, translate, stream, pc, result, last, delivered, input,
          items, sent, written, send_result, io, arg, val, cur, ops

vars == <<rx_buffer, translate, stream, pc, result, last, delivered, input,
          items, sent, written, send_result, io, arg, val, cur, ops>>

adapterVars == <<rx_buffer, translate, stream, pc, result, last, delivered,
                 input, items, sent, written, send_result, io>>
sendVars == <<sent, written, send_result, io>>
pureVars == <<arg, val, cur, ops>>

\* all sequences over S of length at most n
SeqsUpTo(S, n) == UNION {[1..k -> S] : k \in 0..n}

\* the history kept in delivered: a Data event joins a Data event before it
Deliver(history, event) ==
    IF /\ event.type = "Data"
       /\ history # <<>>
       /\ history[Len(history)].type = "Data"
    THEN [history EXCEPT ![Len(history)] =
              Data(history[Len(history)].bytes \o event.bytes)]
    ELSE Append(history, event)

\* the byte b occurs in the sequence
Contains(bytes, b) == \E i \in 1..Len(bytes) : bytes[i] = b

\* how often the byte b occurs in the sequence
RECURSIVE CountOf(_, _)
CountOf(bytes, b) ==
    IF bytes = <<>>
    THEN 0
    ELSE (IF Head(bytes) = b THEN 1 ELSE 0) + CountOf(Tail(bytes), b)

RECURSIVE Flatten(_)
Flatten(seqs) ==
    IF seqs = <<>> THEN <<>> ELSE Head(seqs) \o Flatten(Tail(seqs))

\* the wire form of a sequence of events
WireOf(events) == Flatten([i \in 1..Len(events) |-> into_bytes(events[i])])

PureIdle == /\ arg = <<>> /\ val = <<>> /\ cur = "-" /\ ops = <<>>

(***************************************************************************)
(* stream.rs: the stream adapter.                                          *)
(***************************************************************************)
Min(a, b) == IF a < b THEN a ELSE b

\* Read::read(&mut vec) on the channel: the byte counts it may return.  A
\* channel with nothing to deliver returns 0 (MockStream::read); otherwise
\* any count from 1 up to what it holds and the buffer takes.
ReadCounts(chan) ==
    IF chan = <<>> THEN {0} ELSE 1..Min(Len(chan), BUFFER_SIZE)

\* MockStream::write: every byte is queued, and the count is the length
write(chan, buf) == [stream |-> chan \o buf, n |-> Len(buf)]

\* What the channel does wrong during one send_event: its call-th write
\* accepts only `accepted` bytes (kind "short") or fails (kind "error"), or
\* its flush fails (kind "flush"); kind "none" for a channel that does all it
\* is asked, as MockStream does.
NoFault == [kind |-> "none", call |-> 0, accepted |-> 0]

\* self.stream.write(bytes) on a channel of any type that is Write: the
\* channel afterwards, the count returned, whether the call returned Ok, and
\* the name of the outcome
ChannelWrite(ch, buf) ==
    LET call == Len(ch.io) + 1
    IN  IF ch.fault.kind = "error" /\ ch.fault.call = call
        THEN [stream |-> ch.stream, n |-> 0, ok |-> FALSE,
              outcome |-> "write error"]
        ELSE IF ch.fault.kind = "short" /\ ch.fault.call = call
             THEN LET n == Min(ch.fault.accepted, Len(buf) - 1)
                  IN  [stream |-> ch.stream \o SubSeq(buf, 1, n), n |-> n,
                       ok |-> TRUE, outcome |-> "short write"]
             ELSE LET w == write(ch.stream, buf)
                  IN  [stream |-> w.stream, n |-> w.n, ok |-> TRUE,
                       outcome |-> "write"]

\* a bug the write-error claim must notice: the count the write returns is
\* not compared with the length
send_raw_bytes_IgnoreCount(ch, bytes) ==
    LET w == ChannelWrite(ch, bytes)
    IN  [ch EXCEPT !.stream = w.stream,
                   !.written = ch.written \o SubSeq(bytes, 1, w.n),
                   !.io = Append(ch.io, w.outcome),
                   !.result = IF ~w.ok THEN "IoError" ELSE "Ok"]

\* TelnetStream::send_raw_bytes; ch is the channel, the bytes it has accepted
\* so far, the TellyResult so far, the calls made on it and its fault
send_raw_bytes(ch, bytes) ==
    LET w == ChannelWrite(ch, bytes)
    IN  [ch EXCEPT !.stream = w.stream,
                   !.written = ch.written \o SubSeq(bytes, 1, w.n),
                   !.io = Append(ch.io, w.outcome),
                   !.result = IF ~w.ok
                              THEN "IoError"
                              ELSE IF w.n # Len(bytes)
                                   THEN "DidNotWriteAllBytes"
                                   ELSE "Ok"]

\* the for loop of TelnetStream::send_bytes, from its i-th pass; `?` leaves
\* it on the first error
RECURSIVE SendBytesLoop(_, _, _)
SendBytesLoop(ch, bytes, i) ==
    IF i > Len(bytes) \/ ch.result # "Ok"
    THEN ch
    ELSE LET escaped == IF bytes[i] = IAC
                        THEN send_raw_bytes(ch, <<IAC>>)
                        ELSE ch
             sent_all == IF escaped.result = "Ok"
                         THEN send_raw_bytes(escaped, bytes)
                         ELSE escaped
         IN  SendBytesLoop(sent_all, bytes, i + 1)

\* TelnetStream::send_bytes on a channel with the given fault: the loop, then
\* self.stream.flush()?
send_bytes(chan, bytes, fault) ==
    LET looped == SendBytesLoop([stream |-> chan, written |-> <<>>,
                                 result |-> "Ok", io |-> <<>>,
                                 fault |-> fault],
                                bytes, 1)
    IN  IF looped.result # "Ok"
        THEN looped
        ELSE IF fault.kind = "flush"
             THEN [looped EXCEPT !.io = Append(looped.io, "flush error"),
                                 !.result = "IoError"]
             ELSE [looped EXCEPT !.io = Append(looped.io, "flush")]

\* TelnetStream::send_event
send_event(chan, event, fault) == send_bytes(chan, into_bytes(event), fault)

\* a bug the read-when-needed claim must notice: every call starts with a
\* read from the channel, whatever the buffer holds
NextCall_ReadsFirst ==
    /\ pc = "idle"
    /\ \E bytes_read \in ReadCounts(stream) :
       \E r \in {next_event(rx_buffer \o SubSeq(stream, 1, bytes_read),
                              translate)} :
           /\ stream' = SubSeq(stream, bytes_read + 1, Len(stream))
           /\ rx_buffer' = r.buffer
           /\ IF r.panicked
              THEN /\ pc' = "panicked"
                   /\ last' = "panic"
                   /\ UNCHANGED <<result, delivered>>
              ELSE IF r.result # None
                   THEN /\ pc' = "idle"
                        /\ last' = "next"
                        /\ result' = r.result
                        /\ delivered' = Deliver(delivered, r.result)
                   ELSE /\ pc' = "loop"
                        /\ last' = "next_event"
                        /\ UNCHANGED <<result, delivered>>
    /\ UNCHANGED <<translate, input, items, sendVars, pureVars>>

\* a bug the stable-end claim must notice: a call that finds no event in the
\* buffer throws the buffered bytes away
NextCall_DropsPartial ==
    /\ pc = "idle"
    /\ \E r \in {next_event(rx_buffer, translate)} :
           /\ rx_buffer' = IF r.result = None THEN <<>> ELSE r.buffer
           /\ IF r.panicked
              THEN /\ pc' = "panicked"
                   /\ last' = "panic"
                   /\ UNCHANGED <<result, delivered>>
              ELSE IF r.result # None
                   THEN /\ pc' = "idle"
                        /\ last' = "next"
                        /\ result' = r.result
                        /\ delivered' = Deliver(delivered, r.result)
                   ELSE /\ pc' = "loop"
                        /\ last' = "next_event"
                        /\ UNCHANGED <<result, delivered>>
    /\ UNCHANGED <<translate, stream, input, items, sendVars, pureVars>>

\* Iterator::next up to its loop: the first next_event on what is buffered
NextCall ==
    /\ pc = "idle"
    /\ \E r \in {next_event(rx_buffer, translate)} :
           /\ rx_buffer' = r.buffer
           /\ IF r.panicked
              THEN /\ pc' = "panicked"
                   /\ last' = "panic"
                   /\ UNCHANGED <<result, delivered>>
              ELSE IF r.result # None
                   THEN /\ pc' = "idle"
                        /\ last' = "next"
                        /\ result' = r.result
                        /\ delivered' = Deliver(delivered, r.result)
                   ELSE /\ pc' = "loop"
                        /\ last' = "next_event"
                        /\ UNCHANGED <<result, delivered>>
    /\ UNCHANGED <<translate, stream, input, items, sendVars, pureVars>>

\* a bug the end-of-stream claim must notice: a read of 0 bytes does not end
\* the call, which reads again
NextRead_ReadsOnAtEnd ==
    /\ pc = "loop"
    /\ \E bytes_read \in ReadCounts(stream) :
       \E r \in {next_event(rx_buffer \o SubSeq(stream, 1, bytes_read),
                              translate)} :
              /\ stream' = SubSeq(stream, bytes_read + 1, Len(stream))
              /\ rx_buffer' = r.buffer
              /\ IF r.panicked
                 THEN /\ pc' = "panicked"
                      /\ last' = "panic"
                      /\ UNCHANGED <<result, delivered>>
                 ELSE IF r.result # None
                      THEN /\ pc' = "idle"
                           /\ last' = "next"
                           /\ result' = r.result
                           /\ delivered' = Deliver(delivered, r.result)
                      ELSE /\ pc' = "loop"
                           /\ last' = "read"
                           /\ UNCHANGED <<result, delivered>>
    /\ UNCHANGED <<translate, input, items, sendVars, pureVars>>

\* a bug the termination claim must notice: at the end of the channel a
\* call with the start of a frame in the buffer waits for the rest of it
NextRead_WaitsForFrame ==
    /\ pc = "loop"
    /\ \E bytes_read \in ReadCounts(stream) :
       \E r \in {next_event(rx_buffer \o SubSeq(stream, 1, bytes_read),
                              translate)} :
              /\ stream' = SubSeq(stream, bytes_read + 1, Len(stream))
              /\ rx_buffer' = r.buffer
              /\ IF r.panicked
                 THEN /\ pc' = "panicked"
                      /\ last' = "panic"
                      /\ UNCHANGED <<result, delivered>>
                 ELSE IF r.result # None
                      THEN /\ pc' = "idle"
                           /\ last' = "next"
                           /\ result' = r.result
                           /\ delivered' = Deliver(delivered, r.result)
                      ELSE IF bytes_read = 0 /\ r.buffer = <<>>
                           THEN /\ pc' = "idle"
                                /\ last' = "next"
                                /\ result' = None
                                /\ UNCHANGED delivered
                           ELSE /\ pc' = "loop"
                                /\ last' = "read"
                                /\ UNCHANGED <<result, delivered>>
    /\ UNCHANGED <<translate, input, items, sendVars, pureVars>>

\* one pass of the loop of Iterator::next: read, put, next_event, and return
\* the event, or None after a read of 0 bytes, or go round again
NextRead ==
    /\ pc = "loop"
    /\ \E bytes_read \in ReadCounts(stream) :
       \E r \in {next_event(rx_buffer \o SubSeq(stream, 1, bytes_read),
                              translate)} :
              /\ stream' = SubSeq(stream, bytes_read + 1, Len(stream))
              /\ rx_buffer' = r.buffer
              /\ IF r.panicked
                 THEN /\ pc' = "panicked"
                      /\ last' = "panic"
                      /\ UNCHANGED <<result, delivered>>
                 ELSE IF r.result # None
                      THEN /\ pc' = "idle"
                           /\ last' = "next"
                           /\ result' = r.result
                           /\ delivered' = Deliver(delivered, r.result)
                      ELSE IF bytes_read = 0
                           THEN /\ pc' = "idle"
                                /\ last' = "next"
                                /\ result' = None
                                /\ UNCHANGED delivered
                           ELSE /\ pc' = "loop"
                                /\ last' = "read"
                                /\ UNCHANGED <<result, delivered>>
    /\ UNCHANGED <<translate, input, items, sendVars, pureVars>>

\* the events a peer serializes onto the channel, and the events sent
WireItems ==
    {Data(<<66>>), Data(<<IAC>>), Data(<<CR>>), Data(<<LF>>),
     Command("NOP"), Negotiation("Do", "LineMode"),
     Subnegotiation("NegotiateAboutWindowSize", <<IAC, SE>>)}

\* Spec: a TelnetStream (from_stream) over a channel on which the peer has
\* put the wire forms of some events; the adapter's caller pulls events.
Init ==
    /\ items \in SeqsUpTo(WireItems, MaxItems)
    /\ input = WireOf(items)
    /\ stream = input
    /\ rx_buffer = <<>>
    /\ translate = DefaultTranslate
    /\ pc = "idle"
    /\ result = None
    /\ last = "init"
    /\ delivered = <<>>
    /\ sent = <<>>
    /\ written = <<>>
    /\ send_result = "-"
    /\ io = <<>>
    /\ PureIdle

Next == NextCall \/ NextRead

Spec == Init /\ [][Next]_vars

\* SpecLoopback: a TelnetStream over an in-memory loopback channel
\* (MockStream): what send_event writes is what next() reads.
SendEvents ==
    {Data(<<66>>), Data(<<IAC>>), Data(<<66, IAC>>), Command("NOP"),
     Negotiation("Do", "LineMode"),
     Subnegotiation("NegotiateAboutWindowSize", <<>>)}

InitLoopback ==
    /\ items = <<>>
    /\ input = <<>>
    /\ stream = <<>>
    /\ rx_buffer = <<>>
    /\ translate = DefaultTranslate
    /\ pc = "idle"
    /\ result = None
    /\ last = "init"
    /\ delivered = <<>>
    /\ sent = <<>>
    /\ written = <<>>
    /\ send_result = "-"
    /\ io = <<>>
    /\ PureIdle

\* stream.send_event(event), between two calls of next()
SendEvent ==
    /\ pc = "idle"
    /\ Len(sent) < MaxSends
    /\ \E event \in SendEvents :
          LET r == send_event(stream, event, NoFault)
          IN  /\ stream' = r.stream
              /\ written' = r.written
              /\ send_result' = r.result
              /\ io' = r.io
              /\ sent' = Append(sent, event)
    /\ last' = "send_event"
    /\ UNCHANGED <<rx_buffer, translate, pc, result, delivered, input, items,
                   pureVars>>

NextLoopback == SendEvent \/ NextCall \/ NextRead

SpecLoopback == InitLoopback /\ [][NextLoopback]_vars

(***************************************************************************)
(* SpecChannel: a TelnetStream over a loopback channel whose read, write   *)
(* and flush may fail, as those of any Read + Write type may.              *)
(***************************************************************************)
\* the latest write call of a send_event that a fault is placed on
MaxWriteCalls == 3

Faults ==
    {NoFault, [kind |-> "flush", call |-> 0, accepted |-> 0]}
    \cup {[kind |-> k, call |-> c, accepted |-> a] :
             k \in {"short", "error"}, c \in 1..MaxWriteCalls, a \in 0..1}

\* stream.send_event(event) while the channel has one of the faults
SendEventFaulty ==
    /\ pc = "idle"
    /\ Len(sent) < MaxSends
    /\ \E event \in SendEvents, fault \in Faults :
          LET r == send_event(stream, event, fault)
          IN  /\ stream' = r.stream
              /\ written' = r.written
              /\ send_result' = r.result
              /\ io' = r.io
              /\ sent' = Append(sent, event)
    /\ last' = "send_event"
    /\ UNCHANGED <<rx_buffer, translate, pc, result, delivered, input, items,
                   pureVars>>

\* the loop of Iterator::next when self.stream.read(&mut vec) returns Err:
\* expect() panics
NextReadFails ==
    /\ pc = "loop"
    /\ pc' = "panicked"
    /\ last' = "read_error"
    /\ UNCHANGED <<rx_buffer, translate, stream, result, delivered, input,
                   items, sendVars, pureVars>>

NextChannel == SendEventFaulty \/ NextCall \/ NextRead \/ NextReadFails

SpecChannel == InitLoopback /\ [][NextChannel]_vars

(***************************************************************************)
(* SpecParser: a caller drives TelnetParser::next_event on its own buffer, *)
(* as tests::parse of telnet.rs does, appending the input piece by piece.  *)
(***************************************************************************)
\* bytes of the raw inputs: NUL, a plain byte, SE, SB, WILL, IAC
RawBytes == {NUL, 66, SE, SB, WILL, IAC}

\* payload bytes of the subnegotiation frames fed to the parser
FramePayloadBytes == {NUL, SE, IAC}
\* longest such payload
MaxFramePayload == 2

\* the control events whose serializations are fed to the parser
FrameEvents ==
    {Command(c) : c \in TelnetCommand \ {"IAC", "SB", "Will", "Wont", "Do", "Dont"}}
    \cup {Negotiation(c, o) : c \in {"Will", "Wont", "Do", "Dont"},
                              o \in TelnetOption}
    \cup {Subnegotiation(o, p) : o \in TelnetOption,
                                 p \in SeqsUpTo(FramePayloadBytes, MaxFramePayload)}

\* longer inputs with malformed framing: a stray IAC before a byte other
\* than SE inside a subnegotiation, IAC as the option byte of IAC SB, IAC SE
\* after data, and a negotiation whose option byte is IAC
MalformedInputs ==
    {<<IAC, SB, 66, IAC, 66, IAC, SE>>,
     <<IAC, SB, IAC, 66, NUL, IAC, SE>>,
     <<66, NUL, IAC, SE, IAC, SE>>,
     <<IAC, WILL, IAC, IAC, 66>>}

InitParser ==
    /\ \/ /\ input \in SeqsUpTo(RawBytes, MaxBufLen) \cup MalformedInputs
          /\ items = <<>>
       \/ \E e \in FrameEvents :
             /\ items = <<e>>
             /\ input = into_bytes(e)
    /\ stream = input
    /\ rx_buffer = <<>>
    /\ translate \in BOOLEAN
    /\ pc = "idle"
    /\ result = None
    /\ last = "init"
    /\ delivered = <<>>
    /\ sent = <<>>
    /\ written = <<>>
    /\ send_result = "-"
    /\ io = <<>>
    /\ PureIdle

\* the caller appends the next byte of its input to the buffer
Extend ==
    /\ stream # <<>>
    /\ rx_buffer' = Append(rx_buffer, Head(stream))
    /\ stream' = Tail(stream)
    /\ last' = "append"
    /\ UNCHANGED <<translate, pc, result, delivered, input, items, sendVars,
                   pureVars>>

\* parser.next_event(&mut rx_buffer)
ParseNext ==
    /\ last # "panic"
    /\ \E r \in {next_event(rx_buffer, translate)} :
           /\ rx_buffer' = r.buffer
           /\ result' = r.result
           /\ last' = IF r.panicked THEN "panic" ELSE "next_event"
           /\ delivered' = IF r.result # None
                           THEN Deliver(delivered, r.result)
                           ELSE delivered
    /\ UNCHANGED <<translate, stream, pc, input, items, sendVars, pureVars>>

NextParser == Extend \/ ParseNext

SpecParser == InitParser /\ [][NextParser]_vars

(***************************************************************************)
(* SpecRaw: a TelnetStream over a channel that delivers some bytes, any    *)
(* bytes, and then returns zero-length reads; the caller calls next()      *)
(* again and again.  SpecRawLive adds that a call that is under way        *)
(* goes on (the loop of next() runs) and that the caller makes its next    *)
(* call.                                                                   *)
(***************************************************************************)
\* most bytes the channel delivers
MaxWireLen == 3

\* the bytes the channel delivers: a data byte, IAC, a negotiation command,
\* and the two ends of a subnegotiation
WireBytes == {66, SE, SB, WILL, IAC}

InitRaw ==
    /\ items = <<>>
    /\ input \in SeqsUpTo(WireBytes, MaxWireLen)
    /\ stream = input
    /\ rx_buffer = <<>>
    /\ translate = DefaultTranslate
    /\ pc = "idle"
    /\ result = None
    /\ last = "init"
    /\ delivered = <<>>
    /\ sent = <<>>
    /\ written = <<>>
    /\ send_result = "-"
    /\ io = <<>>
    /\ PureIdle

SpecRaw == InitRaw /\ [][Next]_vars

SpecRawLive == SpecRaw /\ WF_vars(NextCall) /\ WF_vars(NextRead)

(***************************************************************************)
(* Claims about the frame decoder, checked under SpecParser.               *)
(***************************************************************************)
\* a buffer that holds the start of a frame and not its end: empty, IAC
\* alone, IAC and a negotiation command without the option byte, or IAC SB
\* followed by bytes among which no IAC is directly followed by SE
IncompleteFrame(buf) ==
    \/ buf = <<>>
    \/ buf = <<IAC>>
    \/ /\ Len(buf) = 2
       /\ buf[1] = IAC
       /\ buf[2] \in {WILL, WONT, DO, DONT}
    \/ /\ Len(buf) >= 2
       /\ buf[1] = IAC
       /\ buf[2] = SB
       /\ \A i \in 3..(Len(buf) - 1) : ~(buf[i] = IAC /\ buf[i + 1] = SE)

\* C1: a next_event call that returns None leaves the receive buffer exactly
\* as it was, and a call on an empty buffer, on IAC alone, on IAC WILL/WONT/
\* DO/DONT without an option byte, or on IAC SB ... without IAC SE returns
\* None, for every buffer content and either translate setting.
C1_NoneLeavesBuffer ==
    [][last' = "next_event" =>
         /\ (result' = None => rx_buffer' = rx_buffer)
         /\ (IncompleteFrame(rx_buffer) => result' = None)]_vars

\* a call returned None on a buffer holding an unterminated subnegotiation
C1_Witness ==
    /\ last = "next_event"
    /\ result = None
    /\ Len(rx_buffer) >= 4
    /\ rx_buffer[1] = IAC
    /\ rx_buffer[2] = SB

\* a complete control frame on the wire: the serialization of a Command,
\* Negotiation or Subnegotiation event, or IAC and a command byte, or IAC, a
\* negotiation command and an option byte other than IAC
IsFrame ==
    \/ items # <<>>
    \/ /\ Len(input) = 2
       /\ input[1] = IAC
       /\ input[2] \notin {IAC, SB, WILL, WONT, DO, DONT}
    \/ /\ Len(input) = 3
       /\ input[1] = IAC
       /\ input[2] \in {WILL, WONT, DO, DONT}
       /\ input[3] # IAC

C8_SubnegotiationRoundTrip ==
    (/\ items # <<>>
     /\ items[1].type = "Subnegotiation"
     /\ stream = <<>>
     /\ last = "next_event") =>
        /\ delivered = items
        /\ rx_buffer = <<>>
        /\ result \in {items[1], None}

\* a subnegotiation whose payload is 0xFF 0xF0 (on the wire an escaped IAC
\* followed by SE) was decoded with translate enabled
C8_Witness ==
    /\ items # <<>>
    /\ items[1].type = "Subnegotiation"
    /\ items[1].bytes = <<IAC, SE>>
    /\ translate
    /\ stream = <<>>
    /\ last = "next_event"
    /\ result = items[1]
    /\ rx_buffer = <<>>

\* the bytes that name a command: the discriminants of TelnetCommand other
\* than the one of its fallback variant
NamedCommandBytes == {CommandToU8(c) : c \in TelnetCommand \ {"Unknown"}}

\* C12 as claimed: for a byte b that names no command, decoding IAC b yields
\* a Command event whose serialization is IAC b again.
C12_UnknownCommandPreserved ==
    (/\ Len(input) = 2
     /\ input[1] = IAC
     /\ input[2] \notin NamedCommandBytes
     /\ delivered # <<>>) =>
        /\ delivered[1].type = "Command"
        /\ into_bytes(delivered[1]) = input

\* C19 as claimed: a buffer of 3 or more bytes that starts with IAC and
\* WILL/WONT/DO/DONT decodes to the Negotiation of that command and of the
\* option its third byte names, whatever that byte is, and exactly those 3
\* bytes are taken off the buffer; and the serialization of a Negotiation
\* event decodes to that event and leaves the buffer empty.
C19_NegotiationThreeBytes ==
    /\ [][(/\ last' \in {"next_event", "panic"}
           /\ Len(rx_buffer) >= 3
           /\ rx_buffer[1] = IAC
           /\ rx_buffer[2] \in {WILL, WONT, DO, DONT}) =>
              /\ result' = Negotiation(CommandFromU8(rx_buffer[2]),
                                       OptionFromU8(rx_buffer[3]))
              /\ rx_buffer' = SubSeq(rx_buffer, 4, Len(rx_buffer))]_vars
    /\ []((/\ items # <<>>
           /\ items[1].type = "Negotiation"
           /\ stream = <<>>
           /\ last = "next_event") =>
              /\ delivered = items
              /\ rx_buffer = <<>>)

\* C20: next_event never panics: on every buffer, well-formed or not, and
\* with either translate setting, neither expect() on the remembered command
\* fires, the advancement never goes below zero, and when an event is found
\* the advancement is at least 1 and at most the length of the buffer; the
\* call returns one event or None.
C20_NeverPanics ==
    LET st == Scan(ScanStart, rx_buffer, 1, translate)
    IN  /\ last # "panic"
        /\ ~st.panicked
        /\ ~next_event(rx_buffer, translate).panicked
        /\ (st.result # None =>
              st.advancement >= 1 /\ st.advancement <= Len(rx_buffer))
        /\ result.type \in {"None", "Command", "Negotiation",
                            "Subnegotiation", "Data"}

\* a subnegotiation with a stray IAC before a plain byte in its payload was
\* decoded: the IAC is dropped and the byte kept
C20_Witness ==
    /\ input = <<IAC, SB, 66, IAC, 66, IAC, SE>>
    /\ stream = <<>>
    /\ last = "next_event"
    /\ result = Subnegotiation("Unknown", <<66>>)
    /\ rx_buffer = <<>>

MaxOps == 2

\* bytes of the byte-transform inputs: NUL, '\n', '\r', a plain byte, IAC
XformBytes == {NUL, LF, CR, 66, IAC}

\* bytes of subnegotiation payloads: IS, SEND, IAC
PayloadBytes == {IS, SEND, IAC}

\* window widths and heights
Words == {0, 202, 256, U16 - 1}

\* the characters of terminal names, each as its UTF-8 bytes: 'x', 't', e-acute
NameChars == {<<120>>, <<116>>, <<195, 169>>}
\* most characters of a terminal name
MaxNameChars == 2

TerminalNames ==
    {Flatten(cs) : cs \in SeqsUpTo(NameChars, MaxNameChars)}

TypedValues ==
    {NegotiateAboutWindowSize(w, h) : w \in Words, h \in Words}
    \cup {TerminalTypeRequest}
    \cup {TerminalTypeResponse(n) : n \in TerminalNames}
    \cup {Other(o, b) : o \in TelnetOption,
                        b \in SeqsUpTo(PayloadBytes, MaxPayloadLen)}

UnparsedValues ==
    {Unparsed(o, b) : o \in TelnetOption,
                      b \in SeqsUpTo(PayloadBytes, MaxPayloadLen)}

AdapterIdle ==
    /\ rx_buffer = <<>>
    /\ translate = DefaultTranslate
    /\ stream = <<>>
    /\ pc = "idle"
    /\ result = None
    /\ last = "init"
    /\ delivered = <<>>
    /\ input = <<>>
    /\ items = <<>>
    /\ sent = <<>>
    /\ written = <<>>
    /\ send_result = "-"
    /\ io = <<>>

\* every value of u8
AllBytes == 0..255

InitPure ==
    /\ \/ /\ cur = "u8"
          /\ arg \in AllBytes
          /\ val = arg
       \/ /\ cur = "option"
          /\ arg \in TelnetOption
          /\ val = arg
       \/ /\ cur = "bytes"
          /\ arg \in SeqsUpTo(XformBytes, MaxXformLen)
          /\ val = OkBytes(arg)
       \/ /\ cur = "typed"
          /\ arg \in TypedValues
          /\ val = OkSub(arg)
       \/ /\ cur = "unparsed"
          /\ arg \in UnparsedValues
          /\ val = arg
    /\ ops = <<>>
    /\ AdapterIdle

\* a conversion named op turns the current value into v of type c
Apply(op, v, c) ==
    /\ Len(ops) < MaxOps
    /\ val' = v
    /\ cur' = c
    /\ ops' = Append(ops, op)
    /\ UNCHANGED <<arg, adapterVars>>

\* bytes.into_iter().escape_iacs().collect()
EscapeIacs ==
    /\ cur = "bytes"
    /\ val.ok
    /\ Apply("escape_iacs", OkBytes(escape_iacs(val.bytes)), "bytes")

\* bytes.into_iter().unescape_iacs().collect()
UnescapeIacs ==
    /\ cur = "bytes"
    /\ val.ok
    /\ Apply("unescape_iacs", Collect(unescape_iacs(val.bytes)), "bytes")

\* bytes.into_iter().unix_to_nvt().collect()
UnixToNvt ==
    /\ cur = "bytes"
    /\ val.ok
    /\ Apply("unix_to_nvt", OkBytes(unix_to_nvt(val.bytes)), "bytes")

\* bytes.into_iter().nvt_to_unix().collect()
NvtToUnix ==
    /\ cur = "bytes"
    /\ val.ok
    /\ Apply("nvt_to_unix", Collect(nvt_to_unix(val.bytes)), "bytes")

\* UnparsedTelnetSubnegotiation::from(typed)
IntoUnparsed ==
    /\ cur = "typed"
    /\ val.ok
    /\ Apply("from", option_bytes(val.val), "unparsed")

\* TelnetSubnegotiation::try_from(unparsed)
TryInto ==
    /\ cur = "unparsed"
    /\ Apply("try_from", try_from(val), "typed")

\* TelnetOption::from(byte)
OptionFrom ==
    /\ cur = "u8"
    /\ Apply("TelnetOption::from", OptionFromU8(val), "option")

\* u8::from(option)
OptionInto ==
    /\ cur = "option"
    /\ Apply("u8::from", OptionToU8(val), "u8")

NextPure ==
    \/ OptionFrom
    \/ OptionInto
    \/ EscapeIacs
    \/ UnescapeIacs
    \/ UnixToNvt
    \/ NvtToUnix
    \/ IntoUnparsed
    \/ TryInto

SpecPure == InitPure /\ [][NextPure]_vars

(***************************************************************************)
(* Claims about the pure conversions, checked under SpecPure.              *)
(***************************************************************************)
\* the value drawn at the start is a TelnetSubnegotiation, or an
\* UnparsedTelnetSubnegotiation
ArgIsTyped == cur \in {"typed", "unparsed"} /\ "kind" \in DOMAIN arg
ArgIsUnparsed == cur \in {"typed", "unparsed"} /\ "kind" \notin DOMAIN arg

\* C4: collecting unescape_iacs(escape_iacs(b)) yields Ok(b) for every byte
\* sequence b, wherever 0xFF occurs in it.
C4_EscapeRoundTrip ==
    ops = <<"escape_iacs", "unescape_iacs">> => val = OkBytes(arg)

\* the round trip was run on a sequence that ends in 0xFF and holds another
C4_Witness ==
    /\ ops = <<"escape_iacs", "unescape_iacs">>
    /\ Len(arg) >= 3
    /\ arg[1] = IAC
    /\ arg[Len(arg)] = IAC

\* C5: collecting nvt_to_unix(unix_to_nvt(b)) yields Ok(b) for every byte
\* sequence b without a NUL byte, whatever mix of 0xFF, '\r' and '\n' it
\* holds.
C5_NvtRoundTrip ==
    (ops = <<"unix_to_nvt", "nvt_to_unix">> /\ ~Contains(arg, NUL)) =>
        val = OkBytes(arg)

\* the round trip was run on '\r' '\n' next to a 0xFF
C5_Witness ==
    /\ ops = <<"unix_to_nvt", "nvt_to_unix">>
    /\ Len(arg) >= 3
    /\ arg[1] = CR
    /\ arg[2] = LF
    /\ arg[3] = IAC

\* C9: an unparsed NegotiateAboutWindowSize subnegotiation decodes iff its
\* payload has exactly 4 bytes; then width = 256*bytes[0] + bytes[1] and
\* height = 256*bytes[2] + bytes[3] without wrapping in 16 bits, and
\* converting the typed value back gives the same option and payload.
C9_NawsDecoding ==
    (ArgIsUnparsed /\ arg.option = "NegotiateAboutWindowSize") =>
      /\ (ops = <<"try_from">> =>
            /\ val.ok <=> Len(arg.bytes) = 4
            /\ val.ok =>
                 val.val = NegotiateAboutWindowSize(
                               256 * arg.bytes[1] + arg.bytes[2],
                               256 * arg.bytes[3] + arg.bytes[4]))
      /\ (ops = <<"try_from", "from">> => val = arg)

\* a 4-byte payload of 0xFF bytes was decoded to 65535 x 65535 and encoded
\* back
C9_Witness ==
    /\ ArgIsUnparsed
    /\ ops = <<"try_from", "from">>
    /\ arg = Unparsed("NegotiateAboutWindowSize", <<IAC, IAC, IAC, IAC>>)
    /\ val = arg


\* C10 as claimed: every TelnetSubnegotiation value t, Other with any option
\* and any bytes included, converts to an UnparsedTelnetSubnegotiation that
\* try_into turns back into Ok(t).
C10_TypedRoundTripAnyOther ==
    (ArgIsTyped /\ ops = <<"from", "try_from">>) => val = OkSub(arg)

\* C10, amended: the round trip returns Ok(t) for every NegotiateAboutWindowSize,
\* TerminalTypeRequest and TerminalTypeResponse value and for every Other
\* value whose option is neither NegotiateAboutWindowSize nor TerminalType.
C10_TypedRoundTrip ==
    (/\ ArgIsTyped
     /\ ops = <<"from", "try_from">>
     /\ (arg.kind = "Other" =>
           arg.option \notin {"NegotiateAboutWindowSize", "TerminalType"})) =>
        val = OkSub(arg)

\* a terminal-type response with a two-byte character in its name went
\* through both conversions
C10_Witness ==
    /\ ArgIsTyped
    /\ ops = <<"from", "try_from">>
    /\ arg.kind = "TerminalTypeResponse"
    /\ arg.name = <<120, 195, 169>>
    /\ val.ok

\* every byte of the sequence is ASCII, so the sequence is its own text
IsAscii(bytes) == \A i \in 1..Len(bytes) : bytes[i] < 128

\* C11: an unparsed TerminalType subnegotiation whose payload starts with
\* SEND decodes to TerminalTypeRequest whatever follows; one whose payload
\* starts with IS decodes to TerminalTypeResponse, whose name is the rest of
\* the payload when that is ASCII text; an empty payload or another first
\* byte is a decode error; and every option other than
\* NegotiateAboutWindowSize and TerminalType decodes to Other with the same
\* option and bytes.
C11_TerminalTypeDecoding ==
    (ArgIsUnparsed /\ ops = <<"try_from">>) =>
      /\ (arg.option = "TerminalType" =>
            /\ (arg.bytes # <<>> /\ arg.bytes[1] = SEND =>
                  val = OkSub(TerminalTypeRequest))
            /\ (arg.bytes # <<>> /\ arg.bytes[1] = IS =>
                  /\ val.ok
                  /\ val.val.kind = "TerminalTypeResponse"
                  /\ (IsAscii(Tail(arg.bytes)) =>
                        val.val = TerminalTypeResponse(Tail(arg.bytes))))
            /\ (arg.bytes = <<>> \/ arg.bytes[1] \notin {IS, SEND} =>
                  /\ ~val.ok
                  /\ val.err = "Expected IS or SEND in terminal-type subnegotiation"))
      /\ (arg.option \notin {"NegotiateAboutWindowSize", "TerminalType"} =>
            val = OkSub(Other(arg.option, arg.bytes)))

\* a TerminalType payload of SEND followed by other bytes was decoded to
\* TerminalTypeRequest
C11_Witness ==
    /\ ArgIsUnparsed
    /\ ops = <<"try_from">>
    /\ arg = Unparsed("TerminalType", <<SEND, IS, IAC>>)
    /\ val = OkSub(TerminalTypeRequest)

\* where the run of consecutive IAC bytes that holds position i starts
RunStart(bytes, i) ==
    CHOOSE j \in 1..i :
       /\ \A k \in j..i : bytes[k] = IAC
       /\ (j = 1 \/ bytes[j - 1] # IAC)

\* position i holds an IAC that opens a pair (it is the 1st, 3rd, ... of its
\* run) and the byte after it, if any, is not an IAC
Unpaired(bytes, i) ==
    /\ bytes[i] = IAC
    /\ (i - RunStart(bytes, i)) % 2 = 0
    /\ (i = Len(bytes) \/ bytes[i + 1] # IAC)

\* C17: collecting unescape_iacs(b) is an error exactly when some IAC of b is
\* not directly followed by another IAC, be it followed by another byte or
\* the last byte of b; the error carries the byte found after the first such
\* IAC (none at the end of b).  When every IAC of b is one of a doubled pair
\* the result is b with one 0xFF left of each pair.
C17_UnescapeErrors ==
    ops = <<"unescape_iacs">> =>
      LET bad == {i \in 1..Len(arg) : Unpaired(arg, i)}
      IN  /\ val.ok <=> bad = {}
          /\ (val.ok =>
                /\ 2 * CountOf(val.bytes, IAC) = CountOf(arg, IAC)
                /\ Len(val.bytes) = Len(arg) - CountOf(val.bytes, IAC)
                /\ escape_iacs(val.bytes) = arg)
          /\ (~val.ok =>
                LET first == CHOOSE i \in bad : \A j \in bad : i <= j
                IN  val.err = IF first = Len(arg)
                              THEN NoByte
                              ELSE arg[first + 1])

\* a doubled pair followed by a lone IAC at the end of the input gave a
\* decode error that carries no byte
C17_Witness ==
    /\ ops = <<"unescape_iacs">>
    /\ arg = <<IAC, IAC, IAC>>
    /\ val = ErrBytes(NoByte)

\* the option codes the specification names, each with its option
NamedOptions ==
    (0 :> "BinaryTransmission") @@ (1 :> "Echo") @@ (2 :> "Reconnection")
    @@ (3 :> "SuppressGoAhead") @@ (4 :> "ApproxMessageSizeNegotiation")
    @@ (5 :> "Status") @@ (6 :> "TimingMark") @@ (18 :> "Logout")
    @@ (24 :> "TerminalType") @@ (31 :> "NegotiateAboutWindowSize")
    @@ (34 :> "LineMode")

\* C18: TelnetOption::from(b) is the named option for each of the codes
\* 0,1,2,3,4,5,6,18,24,31,34 and Unknown for every other byte; Unknown
\* serializes to 0xFE; byte -> option -> byte gives the byte back exactly for
\* the named codes and 0xFE; option -> byte -> option gives every option
\* back.
C18_OptionMapping ==
    /\ (ops = <<"TelnetOption::from">> =>
          val = IF arg \in DOMAIN NamedOptions
                THEN NamedOptions[arg]
                ELSE "Unknown")
    /\ (ops = <<"u8::from">> /\ arg = "Unknown" => val = 254)
    /\ (ops = <<"TelnetOption::from", "u8::from">> =>
          (val = arg <=> arg \in DOMAIN NamedOptions \cup {254}))
    /\ (ops = <<"u8::from", "TelnetOption::from">> => val = arg)

\* the byte 0x07, which names no option, went to Unknown and came back as
\* 0xFE
C18_Witness ==
    /\ ops = <<"TelnetOption::from", "u8::from">>
    /\ arg = 7
    /\ val = 254

(***************************************************************************)
(* Claims about the stream adapter, checked under Spec and SpecLoopback.   *)
(***************************************************************************)
\* a run of wire data bytes with each IAC IAC pair collapsed to one 0xFF
RECURSIVE CollapseIacs(_)
CollapseIacs(bytes) ==
    IF bytes = <<>>
    THEN <<>>
    ELSE IF Len(bytes) >= 2 /\ bytes[1] = IAC /\ bytes[2] = IAC
         THEN <<IAC>> \o CollapseIacs(Tail(Tail(bytes)))
         ELSE <<Head(bytes)>> \o CollapseIacs(Tail(bytes))

\* what the wire form of one event stands for: a frame for its control
\* event, a data run for its bytes with the doubled IACs collapsed
WireMeaning(event) ==
    IF event.type = "Data"
    THEN Data(CollapseIacs(into_bytes(event)))
    ELSE event

\* the events the wire forms of `events` stand for, data runs that touch
\* joined, in wire order
RECURSIVE ExpectedFrom(_, _)
ExpectedFrom(history, events) ==
    IF events = <<>>
    THEN history
    ELSE ExpectedFrom(Deliver(history, WireMeaning(Head(events))),
                      Tail(events))

Expected == ExpectedFrom(<<>>, items)

IsPrefix(a, b) == Len(a) <= Len(b) /\ SubSeq(b, 1, Len(a)) = a

\* d is e cut short: the same events in the same order, the last one of d
\* possibly a Data event holding only the first bytes of e's
DeliveredSoFar(d, e) ==
    \/ d = <<>>
    \/ /\ Len(d) <= Len(e)
       /\ SubSeq(e, 1, Len(d) - 1) = SubSeq(d, 1, Len(d) - 1)
       /\ \/ d[Len(d)] = e[Len(d)]
          \/ /\ d[Len(d)].type = "Data"
             /\ e[Len(d)].type = "Data"
             /\ IsPrefix(d[Len(d)].bytes, e[Len(d)].bytes)

\* C3: for a well-formed wire sequence without NUL bytes, cut into reads in
\* any way, the events delivered by next() are at every moment the first
\* part of the wire's events in wire order (each data run being the wire's
\* data bytes with IAC IAC collapsed), and when next() reports the end all
\* of them have been delivered: nothing is reordered, duplicated or lost and
\* the control events do not depend on the cutting.
C3_WireOrder ==
    ~Contains(input, NUL) =>
      /\ DeliveredSoFar(delivered, Expected)
      /\ (pc = "idle" /\ last = "next" /\ result = None =>
            delivered = Expected)

\* a data run of one escaped IAC, the negotiation that follows it and a
\* subnegotiation were all delivered, and the end was reported
C3_Witness ==
    /\ items = <<Data(<<IAC>>), Negotiation("Do", "LineMode"),
                 Subnegotiation("NegotiateAboutWindowSize", <<IAC, SE>>)>>
    /\ pc = "idle"
    /\ last = "next"
    /\ result = None
    /\ delivered = items
    /\ stream = <<>>

\* C14: when next() stands in its read loop, the channel has nothing left (its
\* read returns 0 bytes) and the receive buffer is empty, the call returns
\* None: it neither panics nor reads again, and nothing is delivered.
C14_EndOfStream ==
    [][(pc = "loop" /\ stream = <<>> /\ rx_buffer = <<>>) =>
           /\ pc' = "idle"
           /\ last' = "next"
           /\ result' = None
           /\ rx_buffer' = <<>>
           /\ delivered' = delivered]_vars

\* after two events were delivered, a read of 0 bytes on an empty receive
\* buffer ended the sequence
C14_Witness ==
    /\ pc = "idle"
    /\ last = "next"
    /\ result = None
    /\ rx_buffer = <<>>
    /\ stream = <<>>
    /\ Len(delivered) = 2
    /\ delivered[1].type = "Command"

\* C6: after send_event(Data(d)) on a fresh loopback stream, each 0xFF of d
\* is on the wire twice, and the next() calls that follow deliver Data events
\* whose payloads joined are d before the end of the sequence is reported.
C6_LoopbackDataRoundTrip ==
    (Len(sent) = 1 /\ sent[1].type = "Data") =>
      /\ CountOf(written, IAC) = 2 * CountOf(sent[1].bytes, IAC)
      /\ (pc = "idle" /\ last = "next" /\ result = None =>
            delivered = <<sent[1]>>)

\* C7: send_event(e) writes exactly the bytes of e.into_bytes() to the
\* channel, once and in order, and returns Ok.
C7_SendWritesSerialization ==
    last = "send_event" =>
      /\ written = into_bytes(sent[Len(sent)])
      /\ send_result = "Ok"

(***************************************************************************)
(* Claims about channel failures, checked under SpecChannel.               *)
(***************************************************************************)
\* C15 as claimed: when the channel's read fails during next(), the call
\* returns to its caller (with the I/O error) instead of aborting.
C15_ReadFailureReported ==
    last = "read_error" => pc = "idle"

\* C16: in the calls send_event makes on the channel, a write that accepts
\* fewer bytes than asked, a write that fails and a flush that fails are each
\* the last call made (nothing is retried and nothing follows), and
\* send_event returns DidNotWriteAllBytes for the first and IoError for the
\* other two; it returns Ok only after the flush succeeded.
C16_SendErrors ==
    last = "send_event" =>
      /\ \A i \in 1..Len(io) :
            /\ (io[i] = "short write" =>
                  i = Len(io) /\ send_result = "DidNotWriteAllBytes")
            /\ (io[i] \in {"write error", "flush error"} =>
                  i = Len(io) /\ send_result = "IoError")
            /\ (io[i] = "flush" => i = Len(io) /\ send_result = "Ok")
      /\ io # <<>>

\* the second write of a send_event accepted fewer bytes than asked and the
\* call returned DidNotWriteAllBytes
C16_Witness ==
    /\ last = "send_event"
    /\ Len(io) = 2
    /\ io[2] = "short write"
    /\ send_result = "DidNotWriteAllBytes"

(***************************************************************************)
(* Claims about data runs and command frames of the frame decoder, checked *)
(* under SpecParser.                                                       *)
(***************************************************************************)
\* the first k bytes of buf are plain data bytes, and an IAC and a byte that
\* is not IAC follow them
DataThenCommand(buf, k) ==
    /\ k >= 1
    /\ Len(buf) >= k + 2
    /\ \A i \in 1..k : buf[i] # IAC
    /\ buf[k + 1] = IAC
    /\ buf[k + 2] # IAC

\* C21: when the buffer holds k >= 1 plain data bytes followed by IAC and a
\* byte other than IAC, next_event returns a Data event made of those k
\* bytes only (all of them when no NUL is dropped) and takes exactly them
\* off the buffer, so the buffer left starts with that IAC and the next call
\* does not return Data but what the frame starting there decodes to.
C21_DataRunEndsBeforeCommand ==
    [][\A k \in 1..Len(rx_buffer) :
          (last' \in {"next_event", "panic"} /\ DataThenCommand(rx_buffer, k)) =>
             /\ result'.type = "Data"
             /\ \A i \in 1..Len(result'.bytes) :
                   \E j \in 1..k : result'.bytes[i] = rx_buffer[j]
             /\ (~translate \/ ~Contains(SubSeq(rx_buffer, 1, k), NUL) =>
                   result'.bytes = SubSeq(rx_buffer, 1, k))
             /\ rx_buffer' = SubSeq(rx_buffer, k + 1, Len(rx_buffer))
             /\ next_event(rx_buffer', translate).result.type
                   \in {"None", "Command", "Negotiation", "Subnegotiation"}]_vars

\* two data bytes before IAC SE were returned as one Data event and the
\* buffer left is IAC SE
C21_Witness ==
    /\ input = <<66, 66, IAC, SE>>
    /\ stream = <<>>
    /\ last = "next_event"
    /\ result = Data(<<66, 66>>)
    /\ rx_buffer = <<IAC, SE>>

\* the sequence without its NUL bytes
DropNul(bytes) == SelectSeq(bytes, LAMBDA b : b # NUL)

\* the buffer holds only plain bytes and doubled IAC pairs
PlainAndPairs(buf) == \A i \in 1..Len(buf) : ~Unpaired(buf, i)

\* C22 as claimed: on a non-empty buffer of plain bytes and doubled IAC pairs
\* one next_event call returns a Data event whose payload is the buffer with
\* each pair collapsed to one 0xFF, and with the NULs removed when translate
\* is on, and leaves the buffer empty, so that the next call returns None.
C22_EagerData ==
    [][(/\ last' \in {"next_event", "panic"}
        /\ rx_buffer # <<>>
        /\ PlainAndPairs(rx_buffer)) =>
           /\ result' = Data(IF translate
                             THEN DropNul(CollapseIacs(rx_buffer))
                             ELSE CollapseIacs(rx_buffer))
           /\ rx_buffer' = <<>>
           /\ next_event(rx_buffer', translate).result = None]_vars

\* C23: when the buffer starts with IAC and a byte c that is not IAC, SB,
\* WILL, WONT, DO or DONT, next_event returns the Command event of
\* TelnetCommand::from(c) and takes exactly those 2 bytes off the buffer,
\* whatever follows them; and the serialization of Command(c) for each of
\* the commands SE .. GoAhead decodes to Command(c).
C23_CommandFrames ==
    /\ [][(/\ last' \in {"next_event", "panic"}
           /\ Len(rx_buffer) >= 2
           /\ rx_buffer[1] = IAC
           /\ rx_buffer[2] \notin {IAC, SB, WILL, WONT, DO, DONT}) =>
              /\ result' = Command(CommandFromU8(rx_buffer[2]))
              /\ (rx_buffer[2] \in NamedCommandBytes =>
                    into_bytes(result') = SubSeq(rx_buffer, 1, 2))
              /\ rx_buffer' = SubSeq(rx_buffer, 3, Len(rx_buffer))]_vars
    /\ []((/\ items # <<>>
           /\ items[1].type = "Command"
           /\ items[1].command # "Unknown"
           /\ stream = <<>>
           /\ last = "next_event") =>
              /\ delivered = items
              /\ rx_buffer = <<>>)

\* IAC SE outside a subnegotiation, with two more bytes behind it, was
\* decoded to Command(SE) and the two bytes stayed in the buffer
C23_Witness ==
    /\ input = <<IAC, SE, 66, IAC>>
    /\ stream = <<>>
    /\ last = "next_event"
    /\ result = Command("SE")
    /\ rx_buffer = <<66, IAC>>

\* C27: a Data event next_event returns never has an empty payload, on any
\* buffer and with either translate setting, also when every byte of the
\* run after its first is a dropped NUL.
C27_DataNonEmpty ==
    /\ (result.type = "Data" => result.bytes # <<>>)
    /\ LET r == next_event(rx_buffer, translate).result
       IN  r.type = "Data" => r.bytes # <<>>
    /\ \A i \in 1..Len(delivered) :
          delivered[i].type = "Data" => delivered[i].bytes # <<>>

\* with translate on, a buffer of two NULs was decoded to a Data event of one
\* byte
C27_Witness ==
    /\ translate
    /\ input = <<NUL, NUL>>
    /\ stream = <<>>
    /\ last = "next_event"
    /\ result.type = "Data"
    /\ Len(result.bytes) = 1
    /\ rx_buffer = <<>>

\* C28: whenever next_event returns an event it removes at least 1 byte and
\* at most the whole buffer, and what is left is the rest of the buffer; the
\* advancement of a data run that meets a command is at least 1.
C28_Progress ==
    LET r == next_event(rx_buffer, translate)
    IN  /\ (r.result # None =>
              /\ r.advancement >= 1
              /\ r.advancement <= Len(rx_buffer)
              /\ r.buffer = SubSeq(rx_buffer, r.advancement + 1, Len(rx_buffer)))
        /\ (r.result = None => r.buffer = rx_buffer)
        /\ \A k \in 1..Len(rx_buffer) :
              DataThenCommand(rx_buffer, k) => r.advancement = k

\* a data run of one byte met a command: one byte was removed, the smallest
\* advancement the give-back of two can leave
C28_Witness ==
    /\ input = <<66, IAC, SE>>
    /\ stream = <<>>
    /\ last = "next_event"
    /\ result = Data(<<66>>)
    /\ rx_buffer = <<IAC, SE>>

(***************************************************************************)
(* Claims about the line-ending transcoders, checked under SpecPure.       *)
(***************************************************************************)
\* what the claim says unix_to_nvt emits for one input byte
UnixByteAsNvt(b) ==
    IF b = LF THEN <<CR, LF>>
    ELSE IF b = CR THEN <<CR, NUL>>
    ELSE IF b = IAC THEN <<IAC, IAC>>
    ELSE <<b>>

\* C25: the output of unix_to_nvt is the concatenation, over the input bytes
\* in order, of '\r' '\n' for '\n', '\r' NUL for '\r', 0xFF 0xFF for 0xFF and
\* the byte itself otherwise; and it is what transcoding the line endings
\* first and doubling 0xFF second gives.
C25_UnixToNvtPerByte ==
    ops = <<"unix_to_nvt">> =>
        /\ val = OkBytes(Flatten([i \in 1..Len(arg) |->
                                     UnixByteAsNvt(arg[i])]))
        /\ val = OkBytes(escape_iacs(UnixToNvtRun(arg, FALSE, FALSE)))

\* unix_to_nvt was run on bytes that hold '\n', '\r' and 0xFF
C25_Witness ==
    /\ ops = <<"unix_to_nvt">>
    /\ Contains(arg, LF)
    /\ Contains(arg, CR)
    /\ Contains(arg, IAC)
    /\ Len(val.bytes) = 2 * Len(arg)

\* what the claim says nvt_to_unix emits for the i-th byte of an input
\* without 0xFF: nothing for NUL and for a '\r' that a '\n' follows, and the
\* byte itself otherwise
NvtByteAsUnix(bytes, i) ==
    IF bytes[i] = NUL THEN <<>>
    ELSE IF bytes[i] = CR /\ i < Len(bytes) /\ bytes[i + 1] = LF THEN <<>>
    ELSE <<bytes[i]>>

\* C26: on an input without 0xFF, nvt_to_unix turns every '\r' '\n' into one
\* '\n', drops every NUL, and emits a '\r' that no '\n' follows as '\r', the
\* byte after it being processed next, once: it is neither lost nor emitted
\* twice, also when it is a '\r' that starts '\r' '\n' and when the '\r' is
\* the last byte.
C26_NvtToUnixLookahead ==
    (ops = <<"nvt_to_unix">> /\ ~Contains(arg, IAC)) =>
        val = OkBytes(Flatten([i \in 1..Len(arg) |-> NvtByteAsUnix(arg, i)]))

\* nvt_to_unix was run on '\r' '\r' '\n' '\r': the byte after the first '\r'
\* starts a pair, and the last byte is a '\r'
C26_Witness ==
    /\ ops = <<"nvt_to_unix">>
    /\ arg = <<CR, CR, LF, CR>>
    /\ val = OkBytes(<<CR, LF, CR>>)

(***************************************************************************)
(* Claims about the reads of the stream adapter, checked under Spec.       *)
(***************************************************************************)
\* the sequence s ends with the sequence t
IsSuffix(t, s) ==
    /\ Len(t) <= Len(s)
    /\ SubSeq(s, Len(s) - Len(t) + 1, Len(s)) = t

\* C24: the adapter reads from the channel only when the receive buffer
\* yields no event.  A call made with a buffer that holds a complete event
\* returns that event, the first one of the buffer and no other, and leaves
\* the channel alone; the loop that reads is only ever entered with a
\* buffer that yields no event; a step delivers at most one event; and the
\* bytes not consumed stay, in order, in the buffer and the channel: all of
\* them while no event is returned, the ones after the event otherwise.
C24_ReadOnlyWhenNeeded ==
    /\ [](pc = "loop" => next_event(rx_buffer, translate).result = None)
    /\ [][LET r == next_event(rx_buffer, translate)
          IN  /\ (pc = "idle" /\ r.result # None /\ ~r.panicked) =>
                    /\ stream' = stream
                    /\ pc' = "idle"
                    /\ last' = "next"
                    /\ result' = r.result
                    /\ rx_buffer' = r.buffer
                    /\ delivered' = Deliver(delivered, r.result)
              /\ stream' # stream => pc = "loop" /\ r.result = None
              /\ \/ delivered' = delivered
                 \/ /\ last' = "next"
                    /\ result' # None
                    /\ delivered' = Deliver(delivered, result')
              /\ IsSuffix(rx_buffer' \o stream', rx_buffer \o stream)
              /\ (pc' = "loop" \/ (last' = "next" /\ result' = None)) =>
                    rx_buffer' \o stream' = rx_buffer \o stream
         ]_vars

\* a call has returned an event without a read, from a buffer that holds
\* another complete event, with bytes still on the channel
C24_Witness ==
    /\ pc = "idle"
    /\ last = "next"
    /\ result # None
    /\ stream # <<>>
    /\ next_event(rx_buffer, translate).result # None
    /\ Len(delivered) >= 2

(***************************************************************************)
(* Claims about the stream adapter at the end of the channel, checked      *)
(* under SpecRaw and SpecRawLive.                                          *)
(***************************************************************************)
\* next() has returned None: the channel's read returned 0 bytes and the
\* buffer gave no event
EndReported == pc = "idle" /\ last = "next" /\ result = None

\* C29: over a channel that delivers finitely many bytes and then returns
\* zero-length reads, every next() call returns (the loop is always left),
\* the calls return events only finitely often, and None is returned in the
\* end, from when on no call returns an event.
C29_Termination ==
    /\ (pc = "loop") ~> (pc = "idle")
    /\ <>[](last = "next" => result = None)
    /\ <>EndReported

\* the end is reported after events were delivered and with the start of a
\* frame left in the buffer
C29_Witness ==
    /\ EndReported
    /\ stream = <<>>
    /\ delivered # <<>>
    /\ rx_buffer # <<>>

\* C30 as claimed: when next() returns None at the end of the channel, no
\* plain data byte that was read is still in the receive buffer: the buffer
\* is empty or holds only the start of a frame (IAC and then no second IAC).
C30_NoDataWithheld ==
    EndReported =>
      \/ rx_buffer = <<>>
      \/ /\ rx_buffer[1] = IAC
         /\ (Len(rx_buffer) = 1 \/ rx_buffer[2] # IAC)

(***************************************************************************)
(* Claims about the kinds of the events, checked under SpecParser, and     *)
(* about the calls after the end of the channel, checked under SpecRaw.    *)
(***************************************************************************)
NegotiationCommands == {"Will", "Wont", "Do", "Dont"}

\* C31: every Negotiation event that next_event returns carries Will, Wont,
\* Do or Dont, and no Command event that it returns carries Will, Wont, Do,
\* Dont, SB or IAC.
C31_EventClassification ==
    (last = "next_event" /\ result # None) =>
        /\ result.type = "Negotiation" =>
               result.command \in NegotiationCommands
        /\ result.type = "Command" =>
               result.command \notin NegotiationCommands \cup {"SB", "IAC"}
        /\ result.type \in {"Data", "Subnegotiation"} =>
               result.command = "-"

\* next_event has returned a negotiation whose option byte came after a
\* doubled IAC
C31_Witness ==
    /\ last = "next_event"
    /\ input = <<IAC, WILL, IAC, IAC, 66>>
    /\ result.type = "Negotiation"
    /\ result.command = "Will"
    /\ rx_buffer = <<66>>

\* the channel has ended and the last call returned None, or a call made
\* after that is under way
AfterEnd ==
    /\ stream = <<>>
    /\ result = None
    /\ last \in {"next", "next_event"}

\* C32: once next() has returned None on a channel that keeps returning
\* zero-length reads, every later call returns None too, and no step of
\* those calls changes the receive buffer, reads a byte or delivers an
\* event.
C32_EndIsStable ==
    /\ [](EndReported => [](last = "next" => result = None))
    /\ [][AfterEnd =>
            /\ rx_buffer' = rx_buffer
            /\ stream' = <<>>
            /\ delivered' = delivered
            /\ result' = None
            /\ pc' \in {"idle", "loop"}]_vars

\* a call made after the end was reported is under way, with the start of a
\* frame in the buffer and events delivered before the end
C32_Witness ==
    /\ pc = "loop"
    /\ last = "next_event"
    /\ result = None
    /\ stream = <<>>
    /\ input # <<>>
    /\ rx_buffer # <<>>
    /\ delivered # <<>>
====
